---------------------------- MODULE Spec2Model ----------------------------
(***************************************************************************)
(* Model of src/main.py: the sqlite-backed store of locations, criteria    *)
(* and location-criterion values, its CRUD handlers, and the two scoring   *)
(* handlers calculate_saw and calculate_wp.                                *)
(*                                                                         *)
(* Numbers.  The code computes with IEEE doubles.  The model computes with *)
(* exact rationals [n |-> numerator, d |-> denominator > 0] in lowest      *)
(* terms.  The input domains below are chosen so that every power the code *)
(* takes is rational, and so that no quotient lies within double precision *)
(* of a rounding tie without being exactly representable.                  *)
(*                                                                         *)
(* Rows.  A locations row is modelled by its id alone (name, address,      *)
(* latitude, longitude do not enter the scoring); the "location" field of  *)
(* a result entry, loc['name'] in the code, is the row's id here.          *)
(***************************************************************************)
EXTENDS Integers, Sequences, FiniteSets, TLC

VARIABLES locations, criteria, location_criteria, response

vars == <<locations, criteria, location_criteria, response>>

----------------------------------------------------------------------------
(* Exact rational arithmetic standing for the code's float arithmetic.     *)

Abs(x) == IF x < 0 THEN -x ELSE x

RECURSIVE GCD(_, _)
GCD(a, b) == IF b = 0 THEN a ELSE GCD(b, a % b)

Norm(n, d) ==
    LET s == IF d < 0 THEN -1 ELSE 1
        g == GCD(Abs(n), Abs(d))
    IN  [n |-> (s * n) \div g, d |-> (s * d) \div g]

R(i) == [n |-> i, d |-> 1]

Zero == R(0)

One == R(1)

RAdd(a, b) ==
    LET g == GCD(a.d, b.d)
    IN  Norm(a.n * (b.d \div g) + b.n * (a.d \div g), a.d * (b.d \div g))

RMul(a, b) ==
    LET g1 == GCD(Abs(a.n), b.d)
        g2 == GCD(Abs(b.n), a.d)
    IN  Norm((a.n \div g1) * (b.n \div g2), (a.d \div g2) * (b.d \div g1))

RInv(a) == Norm(a.d, a.n)

RDiv(a, b) == RMul(a, RInv(b))

RNeg(a) == [n |-> -a.n, d |-> a.d]

RLt(a, b) == RAdd(a, RNeg(b)).n < 0

RLe(a, b) == RAdd(a, RNeg(b)).n <= 0

RAbs(a) == [n |-> Abs(a.n), d |-> a.d]

IsInteger(a) == a.d = 1

\* A variant that cuts the digits after the fourth instead of rounding.
Round4Floor(x) == Norm((x.n * 10000) \div x.d, 10000)

\* round(x, 4): the nearest multiple of 1/10000, a tie going to the even one.
Round4(x) ==
    LET lo  == (x.n * 10000) \div x.d
        rem == 2 * ((x.n * 10000) % x.d)
        k   == IF rem < x.d THEN lo
               ELSE IF rem > x.d THEN lo + 1
               ELSE IF lo % 2 = 0 THEN lo ELSE lo + 1
    IN  Norm(k, 10000)

RECURSIVE IntPow(_, _)
IntPow(b, e) == IF e = 0 THEN 1 ELSE b * IntPow(b, e - 1)

\* math.pow raises ValueError for a negative base and a non-integer exponent.
PowRaises(value, weight) == value < 0 /\ ~IsInteger(weight)

\* math.pow(value, weight) for value # 0 where it does not raise.
Pow(value, weight) ==
    LET root == IF weight.d = 1 THEN value
                ELSE CHOOSE r \in 1..Abs(value) : IntPow(r, weight.d) = value
        p    == IntPow(root, Abs(weight.n))
    IN  IF weight.n >= 0 THEN R(p) ELSE Norm(1, p)

----------------------------------------------------------------------------
(* The database and a connection to it.                                    *)

Database == [locations |-> locations, criteria |-> criteria,
             location_criteria |-> location_criteria]

\* sqlite3.connect: statements act on a working copy until commit.
get_db(db) == [committed |-> db, work |-> db]

commit(conn) == [committed |-> conn.work, work |-> conn.work]

\* A variant in which every statement is committed as it is executed.
close_keeps_work(conn) == conn.work

\* conn.close(), or the connection dropped by an exception: what was not
\* committed is rolled back.  (A dropped connection rolls back when it is
\* finalized; until then sqlite answers other writers "database is
\* locked", which changes no table.)
close(conn) == conn.committed

RECURSIVE SetToSeq(_)
SetToSeq(S) ==
    IF S = {} THEN <<>>
    ELSE LET m == CHOOSE x \in S : \A y \in S : x <= y
         IN  <<m>> \o SetToSeq(S \ {m})

\* SELECT * FROM locations: the rows in rowid (id) order.
select_locations(db) == SetToSeq(db.locations)

\* SELECT * FROM criteria: the rows in rowid (insertion) order.
select_criteria(db) == db.criteria

\* SELECT location_id, value FROM location_criteria WHERE criteria_id = ?
select_values(db, cid) ==
    {k \in DOMAIN db.location_criteria : k[2] = cid}

\* SELECT value ... WHERE location_id = ? AND criteria_id = ?, then
\* value['value'] if value else 0
fetch_value(db, l, cid) ==
    IF <<l, cid>> \in DOMAIN db.location_criteria
    THEN db.location_criteria[<<l, cid>>] ELSE 0

SetMax(S) == CHOOSE x \in S : \A y \in S : y <= x

SetMin(S) == CHOOSE x \in S : \A y \in S : x <= y

Range(s) == {s[i] : i \in DOMAIN s}

\* A variant that sorts ascending and reverses: equal scores end up in
\* reverse input order.
RECURSIVE sorted_reversed(_)
sorted_reversed(s) ==
    IF s = <<>> THEN <<>>
    ELSE LET n    == Len(s)
             x    == s[n]
             rest == sorted_reversed(SubSeq(s, 1, n - 1))
             k    == Cardinality({i \in DOMAIN rest : RLt(x.score, rest[i].score)})
         IN  SubSeq(rest, 1, k) \o <<x>> \o SubSeq(rest, k + 1, Len(rest))

\* sorted(results, key=lambda x: x['score'], reverse=True): stable, descending.
RECURSIVE sorted_desc(_)
sorted_desc(s) ==
    IF s = <<>> THEN <<>>
    ELSE LET n    == Len(s)
             x    == s[n]
             rest == sorted_desc(SubSeq(s, 1, n - 1))
             \* x goes after every entry whose score is >= its own
             k    == Cardinality({i \in DOMAIN rest : RLe(x.score, rest[i].score)})
         IN  SubSeq(rest, 1, k) \o <<x>> \o SubSeq(rest, k + 1, Len(rest))


----------------------------------------------------------------------------
(* GET /analysis/saw                                                       *)

\* A variant that also takes the default 0 of the locations without a value.
stored_values_with_defaults(db, cid) ==
    IF select_values(db, cid) = {} THEN {}
    ELSE {fetch_value(db, l, cid) : l \in db.locations}
            \cup {db.location_criteria[k] : k \in select_values(db, cid)}

\* The stored values of one criterion: values = [row['value'] for row in ...]
stored_values(db, cid) ==
    {db.location_criteria[k] : k \in select_values(db, cid)}

\* A variant that divides a benefit value by the minimum.
saw_normalize_by_min(type, value, max_value, min_value) ==
    IF type = "benefit"
    THEN IF max_value > 0 /\ min_value # 0 THEN Norm(value, min_value) ELSE Zero
    ELSE IF min_value > 0 /\ value > 0 THEN Norm(min_value, value) ELSE Zero

\* One cell of normalized_matrix.
saw_normalize(type, value, max_value, min_value) ==
    IF type = "benefit"
    THEN IF max_value > 0 THEN Norm(value, max_value) ELSE Zero
    ELSE IF min_value > 0 /\ value > 0 THEN Norm(min_value, value) ELSE Zero

\* The ids of the criteria that got past "if not values: continue".
saw_columns(db) ==
    {c.id : c \in {x \in Range(select_criteria(db)) : stored_values(db, x.id) # {}}}

\* normalized_matrix after the loop over the criteria: no entry at all when
\* every criterion was skipped, otherwise one entry per location.
normalized_matrix(db) ==
    LET cols  == saw_columns(db)
        crit  == [cid \in cols |->
                    CHOOSE c \in Range(select_criteria(db)) : c.id = cid]
        max_value == [cid \in cols |-> SetMax(stored_values(db, cid))]
        min_value == [cid \in cols |-> SetMin(stored_values(db, cid))]
    IN  IF cols = {} THEN <<>>
        ELSE [l \in db.locations |->
                [cid \in cols |->
                    saw_normalize(crit[cid].type, fetch_value(db, l, cid),
                                  max_value[cid], min_value[cid])]]

\* sum(criterion['weight'] * normalized_matrix[loc['id']].get(criterion['id'], 0)
\*     for criterion in criteria)
RECURSIVE saw_sum(_, _)
saw_sum(row, crits) ==
    IF crits = <<>> THEN Zero
    ELSE LET n == Len(crits)
             c == crits[n]
             v == IF c.id \in DOMAIN row THEN row[c.id] ELSE Zero
         IN  RAdd(saw_sum(row, SubSeq(crits, 1, n - 1)), RMul(c.weight, v))

saw_results(db) ==
    LET locs   == select_locations(db)
        matrix == normalized_matrix(db)
    IN  [i \in DOMAIN locs |->
            [location |-> locs[i],
             score    |-> Round4(saw_sum(matrix[locs[i]], select_criteria(db))),
             details  |-> matrix[locs[i]]]]

saw_response(db) ==
    IF select_locations(db) = <<>> \/ select_criteria(db) = <<>>
    THEN [status |-> 200, error |-> "", body |-> <<>>]
    ELSE IF \E l \in db.locations : l \notin DOMAIN normalized_matrix(db)
    THEN [status |-> 500, error |-> "KeyError", body |-> <<>>]
    ELSE [status |-> 200, error |-> "", body |-> sorted_desc(saw_results(db))]

\* A variant that stores the default 0 of every missing value and commits.
store_defaults(db) ==
    [db EXCEPT !.location_criteria =
        [k \in db.locations \X {c.id : c \in Range(db.criteria)} |->
            fetch_value(db, k[1], k[2])]]

calculate_saw_storing(db) ==
    [db |-> store_defaults(db)] @@ saw_response(db)

calculate_saw(db) ==
    [db |-> close(get_db(db))] @@ saw_response(db)

----------------------------------------------------------------------------
(* GET /analysis/wp                                                        *)

\* A variant that negates the weight of every type but "benefit".
wp_weight_unless_benefit(c) ==
    IF c.type = "benefit" THEN c.weight ELSE RNeg(c.weight)

\* weight = -criterion['weight'] if criterion['type'] == "cost" else criterion['weight']
wp_weight(c) == IF c.type = "cost" THEN RNeg(c.weight) ELSE c.weight

\* Whether math.pow raises somewhere in the loops.
wp_raises(db) ==
    \E l \in db.locations : \E c \in Range(select_criteria(db)) :
        /\ fetch_value(db, l, c.id) # 0
        /\ PowRaises(fetch_value(db, l, c.id), wp_weight(c))

\* s after the loop over the criteria, started at 1.
RECURSIVE wp_s(_, _, _)
wp_s(db, l, crits) ==
    IF crits = <<>> THEN One
    ELSE LET n    == Len(crits)
             c    == crits[n]
             v    == fetch_value(db, l, c.id)
             prev == wp_s(db, l, SubSeq(crits, 1, n - 1))
         IN  IF v = 0 THEN prev ELSE RMul(prev, Pow(v, wp_weight(c)))

s_values(db) ==
    LET locs == select_locations(db)
    IN  [i \in DOMAIN locs |->
            [location |-> locs[i], s |-> wp_s(db, locs[i], select_criteria(db))]]

RECURSIVE total_s(_)
total_s(items) ==
    IF items = <<>> THEN Zero
    ELSE RAdd(total_s(SubSeq(items, 1, Len(items) - 1)), items[Len(items)].s)

wp_score(s, total) ==
    IF total.n > 0 THEN Round4(RDiv(s, total)) ELSE Zero

wp_results(db) ==
    LET items == s_values(db)
        total == total_s(items)
    IN  [i \in DOMAIN items |->
            [location |-> items[i].location,
             score    |-> wp_score(items[i].s, total),
             s        |-> items[i].s]]

wp_response(db) ==
    IF select_locations(db) = <<>> \/ select_criteria(db) = <<>>
    THEN [status |-> 200, error |-> "", body |-> <<>>]
    ELSE IF wp_raises(db)
    THEN [status |-> 500, error |-> "ValueError", body |-> <<>>]
    ELSE [status |-> 200, error |-> "", body |-> sorted_desc(wp_results(db))]

calculate_wp(db) ==
    [db |-> close(get_db(db))] @@ wp_response(db)

----------------------------------------------------------------------------
(* The CRUD handlers.  An IntegrityError (a PRIMARY KEY already present)   *)
(* leaves the handler by an exception: nothing is committed.               *)

ok(db) == [db |-> db, status |-> 200, error |-> "", body |-> <<>>]

not_found(db) == [db |-> db, status |-> 404, error |-> "HTTPException", body |-> <<>>]

integrity_error(db) ==
    [db |-> db, status |-> 500, error |-> "IntegrityError", body |-> <<>>]

\* c.lastrowid of an INSERT into an INTEGER PRIMARY KEY table.
lastrowid(db) == IF db.locations = {} THEN 1 ELSE SetMax(db.locations) + 1

\* DELETE FROM location_criteria WHERE location_id = ?
delete_location_values(db, location_id) ==
    [db EXCEPT !.location_criteria =
        [k \in {x \in DOMAIN db.location_criteria : x[1] # location_id} |->
            db.location_criteria[k]]]

\* DELETE FROM location_criteria WHERE criteria_id = ?
delete_criteria_values(db, criteria_id) ==
    [db EXCEPT !.location_criteria =
        [k \in {x \in DOMAIN db.location_criteria : x[2] # criteria_id} |->
            db.location_criteria[k]]]

\* The INSERTs of location.criteria.items() for one location.
insert_values(db, location_id, values) ==
    [db EXCEPT !.location_criteria =
        [k \in DOMAIN db.location_criteria \cup ({location_id} \X DOMAIN values) |->
            IF k[1] = location_id /\ k[2] \in DOMAIN values
            THEN values[k[2]] ELSE db.location_criteria[k]]]

insert_conflicts(db, location_id, values) ==
    \E cid \in DOMAIN values : <<location_id, cid>> \in DOMAIN db.location_criteria

create_location(db, values) ==
    LET conn == get_db(db)
        id   == lastrowid(conn.work)
        w1   == [conn.work EXCEPT !.locations = @ \cup {id}]
    IN  IF insert_conflicts(w1, id, values)
        THEN integrity_error(close([conn EXCEPT !.work = w1]))
        ELSE ok(close(commit([conn EXCEPT !.work = insert_values(w1, id, values)])))

update_location(db, location_id, values) ==
    LET conn     == get_db(db)
        rowcount == IF location_id \in conn.work.locations THEN 1 ELSE 0
        w1       == delete_location_values(conn.work, location_id)
    IN  IF rowcount = 0
        THEN not_found(close(conn))
        ELSE ok(close(commit([conn EXCEPT !.work =
                                 insert_values(w1, location_id, values)])))

delete_location(db, location_id) ==
    LET conn     == get_db(db)
        w1       == delete_location_values(conn.work, location_id)
        rowcount == IF location_id \in w1.locations THEN 1 ELSE 0
        w2       == [w1 EXCEPT !.locations = @ \ {location_id}]
        conn2    == [conn EXCEPT !.work = w2]
    IN  IF rowcount = 0
        THEN not_found(close(conn2))
        ELSE ok(close(commit(conn2)))

criteria_ids(db) == {c.id : c \in Range(db.criteria)}

create_criteria(db, criterion) ==
    LET conn == get_db(db)
    IN  IF criterion.id \in criteria_ids(conn.work)
        THEN integrity_error(close(conn))
        ELSE ok(close(commit([conn EXCEPT !.work.criteria = Append(@, criterion)])))

\* UPDATE location_criteria SET criteria_id = ? WHERE criteria_id = ?
rename_values(db, new_id, old_id) ==
    [db EXCEPT !.location_criteria =
        [k \in {IF x[2] = old_id THEN <<x[1], new_id>> ELSE x :
                    x \in DOMAIN db.location_criteria} |->
            IF k[2] = new_id /\ <<k[1], old_id>> \in DOMAIN db.location_criteria
            THEN db.location_criteria[<<k[1], old_id>>]
            ELSE db.location_criteria[k]]]

rename_conflicts(db, new_id, old_id) ==
    \E k \in DOMAIN db.location_criteria :
        k[2] = old_id /\ <<k[1], new_id>> \in DOMAIN db.location_criteria

update_criteria(db, criteria_id, criterion) ==
    LET conn     == get_db(db)
        rowcount == IF criteria_id \in criteria_ids(conn.work) THEN 1 ELSE 0
        w1       == [conn.work EXCEPT !.criteria =
                        [i \in DOMAIN @ |-> IF @[i].id = criteria_id
                                            THEN criterion ELSE @[i]]]
        conn1    == [conn EXCEPT !.work = w1]
    IN  IF rowcount = 1 /\ criterion.id # criteria_id
                        /\ criterion.id \in criteria_ids(conn.work)
        THEN integrity_error(close(conn))
        ELSE IF rowcount = 0
        THEN not_found(close(conn1))
        ELSE IF criteria_id = criterion.id
        THEN ok(close(commit(conn1)))
        ELSE IF rename_conflicts(w1, criterion.id, criteria_id)
        THEN integrity_error(close(conn1))
        ELSE ok(close(commit([conn1 EXCEPT !.work =
                                 rename_values(w1, criterion.id, criteria_id)])))

delete_criteria(db, criteria_id) ==
    LET conn     == get_db(db)
        w1       == delete_criteria_values(conn.work, criteria_id)
        rowcount == IF criteria_id \in criteria_ids(w1) THEN 1 ELSE 0
        w2       == [w1 EXCEPT !.criteria =
                        SelectSeq(@, LAMBDA c : c.id # criteria_id)]
        conn2    == [conn EXCEPT !.work = w2]
    IN  IF rowcount = 0
        THEN not_found(close(conn2))
        ELSE ok(close(commit(conn2)))

----------------------------------------------------------------------------
(* Bounds and input domains.                                               *)

\* Largest location id the CRUD specification hands out.
MaxLocationId == 2

\* Numbers of locations of the three families of stored data that the
\* scoring specification starts from.
MaxLocations == 2

RankLocations == 3

ManyLocations == 6

Half == [n |-> 1, d |-> 2]

CriteriaIds == {"c1", "c2"}

Types == {"benefit", "cost", "other"}

\* The weight a criterion row is given: 0.5 for "c1", 1 for the others.
WeightOf(id) == IF id = "c1" THEN Half ELSE One

\* Raw values, perfect squares up to sign: with a negative one, with a
\* stored zero, and with two positive ones.
SignedValues == {-4, 4}

ZeroValues == {0, 4}

PositiveValues == {1, 4}

CrudValues == {-4, 4}

CrudTypes == {"benefit"}

RankTypes == {"benefit", "cost"}

\* Values close enough for two different scores to round to the same one.
RankValues == {30000, 30001}

ManyValues == {4}

CriteriaRows(ids, types) ==
    {[id |-> i, weight |-> WeightOf(i), type |-> t] : i \in ids, t \in types}

\* The criteria tables over some ids: the id is the primary key.
CriteriaTables(ids, types) ==
    UNION {{t \in [1..k -> CriteriaRows(ids, types)] :
                \A i, j \in 1..k : i # j => t[i].id # t[j].id} :
           k \in 0..Cardinality(ids)}

\* The criteria dictionaries of a request body.
ValueDicts(ids, values) == UNION {[D -> values] : D \in SUBSET ids}

NoResponse == [op |-> "", status |-> 0, error |-> "", body |-> <<>>]

----------------------------------------------------------------------------
(* Actions: one per handler.                                               *)

Reply(op, result) ==
    \E r \in {result} :
        /\ locations' = r.db.locations
        /\ criteria' = r.db.criteria
        /\ location_criteria' = r.db.location_criteria
        /\ response' = [op |-> op, status |-> r.status, error |-> r.error,
                        body |-> r.body]

CreateLocation ==
    /\ lastrowid(Database) <= MaxLocationId
    /\ \E values \in ValueDicts(CriteriaIds, CrudValues) :
          Reply("create_location", create_location(Database, values))

UpdateLocation ==
    \E location_id \in 1..MaxLocationId :
    \E values \in ValueDicts(CriteriaIds, CrudValues) :
        Reply("update_location", update_location(Database, location_id, values))

DeleteLocation ==
    \E location_id \in 1..MaxLocationId :
        Reply("delete_location", delete_location(Database, location_id))

CreateCriteria ==
    \E criterion \in CriteriaRows(CriteriaIds, CrudTypes) :
        Reply("create_criteria", create_criteria(Database, criterion))

UpdateCriteria ==
    \E criteria_id \in CriteriaIds :
    \E criterion \in CriteriaRows(CriteriaIds, CrudTypes) :
        Reply("update_criteria", update_criteria(Database, criteria_id, criterion))

DeleteCriteria ==
    \E criteria_id \in CriteriaIds :
        Reply("delete_criteria", delete_criteria(Database, criteria_id))

CalculateSaw == Reply("calculate_saw", calculate_saw(Database))

CalculateWp == Reply("calculate_wp", calculate_wp(Database))

\* init_db on a new file: three empty tables.
Init ==
    /\ locations = {}
    /\ criteria = <<>>
    /\ location_criteria = <<>>
    /\ response = NoResponse

Next ==
    \/ CreateLocation
    \/ UpdateLocation
    \/ DeleteLocation
    \/ CreateCriteria
    \/ UpdateCriteria
    \/ DeleteCriteria
    \/ CalculateSaw
    \/ CalculateWp

Spec == Init /\ [][Next]_vars

----------------------------------------------------------------------------
(* The scoring handlers as functions of the stored data: the data is drawn *)
(* from three families, every member of which the CRUD handlers can store. *)

StoredData(n, ids, types, values) ==
    /\ locations \in {1..k : k \in 0..n}
    /\ criteria \in CriteriaTables(ids, types)
    /\ location_criteria \in ValueDicts(locations \X ids, values)
    /\ response = NoResponse

\* The same with a value stored for every location and id.
CompleteData(n, ids, types, values) ==
    /\ locations \in {1..k : k \in 0..n}
    /\ criteria \in CriteriaTables(ids, types)
    /\ location_criteria \in [locations \X ids -> values]
    /\ response = NoResponse

InitScore ==
    \/ StoredData(MaxLocations, CriteriaIds, Types, SignedValues)
    \/ StoredData(MaxLocations, CriteriaIds, Types, ZeroValues)
    \/ StoredData(MaxLocations, CriteriaIds, Types, PositiveValues)
    \/ CompleteData(RankLocations, {"c2"}, RankTypes, RankValues)
    \/ StoredData(ManyLocations, {"c1"}, RankTypes, ManyValues)

NextScore ==
    \/ CalculateSaw
    \/ CalculateWp

SpecScore == InitScore /\ [][NextScore]_vars

----------------------------------------------------------------------------
(* Vocabulary of the properties.  After a scoring call the stored data is  *)
(* what the call read, so a response is compared with the current tables.  *)

SawReturned == response.op = "calculate_saw" /\ response.status = 200

WpReturned == response.op = "calculate_wp" /\ response.status = 200

Scored == locations # {} /\ criteria # <<>>

\* value(l, c): the stored value, 0 when there is none.
ValueAt(l, cid) ==
    IF <<l, cid>> \in DOMAIN location_criteria
    THEN location_criteria[<<l, cid>>] ELSE 0

CriterionOf(cid) == CHOOSE c \in Range(criteria) : c.id = cid

\* The values stored for a criterion, and value(l, c) over every location.
StoredOf(cid) ==
    {location_criteria[k] : k \in {x \in DOMAIN location_criteria : x[2] = cid}}

OverLocations(cid) == {ValueAt(l, cid) : l \in locations}

Ratio(a, b) == RDiv(R(a), R(b))

\* The two normalizations of the SAW method, for given extremes.
BenefitFormula(value, max) == IF max > 0 THEN Ratio(value, max) ELSE Zero

CostFormula(value, min) ==
    IF min > 0 /\ value > 0 THEN Ratio(min, value) ELSE Zero

Formula(type, value, extremes) ==
    IF type = "benefit" THEN BenefitFormula(value, SetMax(extremes))
    ELSE CostFormula(value, SetMin(extremes))

\* Every normalized value of the response agrees with the formulas applied
\* to the extremes of extremes(c).
NormalizedOver(extremes(_)) ==
    \A i \in DOMAIN response.body :
        \A cid \in DOMAIN response.body[i].details :
            response.body[i].details[cid] =
                Formula(CriterionOf(cid).type,
                        ValueAt(response.body[i].location, cid), extremes(cid))

(* C1 as stated: in SAW, max_c and min_c are the maximum and minimum of    *)
(* value(l, c) over every location, a missing value counting as 0.         *)
C1_ExtremesOverLocations == SawReturned => NormalizedOver(OverLocations)

(* C1, amended: in SAW, max_c and min_c are the maximum and minimum of the *)
(* values stored for c; a location with no stored value does not enter     *)
(* them, though its own value counts as 0.                                 *)
C1_ExtremesOverStored == SawReturned => NormalizedOver(StoredOf)

\* A cost criterion with a location that has no value: the other location
\* is normalized to 1, not to 0.
C1_Witness ==
    /\ SawReturned
    /\ \E i \in DOMAIN response.body :
       \E cid \in DOMAIN response.body[i].details :
          /\ CriterionOf(cid).type = "cost"
          /\ \E l \in locations : <<l, cid>> \notin DOMAIN location_criteria
          /\ response.body[i].details[cid] = One

(* C2: with locations and criteria both non-empty, calculate_saw returns   *)
(* one result per location without raising, whatever values are stored.    *)
C2_SawReturnsOnePerLocation ==
    (response.op = "calculate_saw" /\ Scored) =>
        /\ response.status = 200
        /\ Len(response.body) = Cardinality(locations)

(* C3: calculate_wp never ends in an error: a negative value under a       *)
(* non-integer weight gives a result for every location.                   *)
C3_WpNeverRaises ==
    (response.op = "calculate_wp" /\ Scored) =>
        /\ response.status = 200
        /\ Len(response.body) = Cardinality(locations)

(* C4: a criterion whose type is neither benefit nor cost makes            *)
(* calculate_saw and calculate_wp report an error.                         *)
C4_InvalidTypeReported ==
    (/\ response.op \in {"calculate_saw", "calculate_wp"}
     /\ Scored
     /\ \E c \in Range(criteria) : c.type \notin {"benefit", "cost"})
        => response.status # 200

RECURSIVE SumOf(_, _)
SumOf(f(_), n) == IF n = 0 THEN Zero ELSE RAdd(SumOf(f, n - 1), f(n))

\* The sum of the returned scores, and total = the sum of the S(l).
ScoreSum ==
    LET score(i) == response.body[i].score
    IN  SumOf(score, Len(response.body))

TotalS ==
    LET s(i) == response.body[i].s
    IN  SumOf(s, Len(response.body))

SumError == RAbs(RAdd(ScoreSum, RNeg(One)))

(* C5 as stated: for a WP result over any number of locations with         *)
(* total > 0, the returned scores sum to 1.0 within 1e-4.                  *)
C5_ScoresSumToOne ==
    (WpReturned /\ response.body # <<>> /\ TotalS.n > 0) =>
        RLe(SumError, Norm(1, 10000))

(* C5, amended: for a WP result over n locations with total > 0, the       *)
(* returned scores sum to 1.0 within n * 0.00005 (each score is rounded    *)
(* on its own, by at most 0.00005).                                        *)
C5_ScoresSumWithinHalfUnitEach ==
    (WpReturned /\ response.body # <<>> /\ TotalS.n > 0) =>
        RLe(SumError, Norm(Len(response.body), 20000))

\* Three or more locations whose rounded scores do not sum to 1.
C5_Witness ==
    /\ WpReturned
    /\ Len(response.body) >= 3
    /\ TotalS.n > 0
    /\ ScoreSum # One

\* The benefit cells of the response: entry, criterion id.
BenefitCells ==
    {x \in (DOMAIN response.body) \X {c.id : c \in Range(criteria)} :
        /\ x[2] \in DOMAIN response.body[x[1]].details
        /\ CriterionOf(x[2]).type = "benefit"}

NormalizedAt(x) == response.body[x[1]].details[x[2]]

RawAt(x) == ValueAt(response.body[x[1]].location, x[2])

(* C6 as stated: in SAW every benefit value satisfies 0 <= n(l,c) <= 1 and *)
(* a location whose value equals max_c has n(l,c) = 1, negative values and *)
(* all-zero criteria included.                                             *)
C6_BenefitInUnitInterval ==
    SawReturned =>
        \A x \in BenefitCells :
            /\ RLe(Zero, NormalizedAt(x)) /\ RLe(NormalizedAt(x), One)
            /\ RawAt(x) = SetMax(OverLocations(x[2])) => NormalizedAt(x) = One

(* C6, amended: in SAW a benefit value satisfies 0 <= n(l,c) <= 1 whenever *)
(* value(l,c) >= 0, and a location whose value equals max_c has n(l,c) = 1 *)
(* whenever max_c > 0; when max_c <= 0 every n(l,c) is 0.                  *)
C6_BenefitInUnitIntervalIfNonNegative ==
    SawReturned =>
        \A x \in BenefitCells :
            /\ RawAt(x) >= 0 =>
                  RLe(Zero, NormalizedAt(x)) /\ RLe(NormalizedAt(x), One)
            /\ (RawAt(x) = SetMax(OverLocations(x[2])) /\ RawAt(x) > 0) =>
                  NormalizedAt(x) = One
            /\ SetMax(OverLocations(x[2])) <= 0 => NormalizedAt(x) = Zero

\* A benefit criterion with a positive maximum: one location reaches it,
\* another lies strictly between 0 and 1.
C6_Witness ==
    /\ SawReturned
    /\ \E x, y \in BenefitCells :
          /\ x[2] = y[2]
          /\ RawAt(x) = SetMax(OverLocations(x[2]))
          /\ NormalizedAt(x) = One
          /\ RLt(Zero, NormalizedAt(y)) /\ RLt(NormalizedAt(y), One)

\* Where a location stands in the input sequence (SELECT * FROM locations).
InputPosition(l) == CHOOSE i \in 1..Len(SetToSeq(locations)) :
                        SetToSeq(locations)[i] = l

(* C7: the result list of calculate_saw and of calculate_wp holds every    *)
(* location once, no entry precedes one with a strictly higher rounded     *)
(* score, and entries with equal rounded scores keep their input order.    *)
C7_StableDescendingByRoundedScore ==
    ((SawReturned \/ WpReturned) /\ Scored) =>
        /\ Len(response.body) = Cardinality(locations)
        /\ {response.body[i].location : i \in DOMAIN response.body} = locations
        /\ \A i \in DOMAIN response.body :
              10000 % response.body[i].score.d = 0
        /\ \A i, j \in DOMAIN response.body :
              i < j =>
                /\ RLe(response.body[j].score, response.body[i].score)
                /\ response.body[i].score = response.body[j].score =>
                      InputPosition(response.body[i].location)
                          < InputPosition(response.body[j].location)

\* Two locations whose rounded scores are equal while the later one has the
\* higher unrounded score: they stay in input order.
C7_Witness ==
    /\ WpReturned
    /\ TotalS.n > 0
    /\ \E i, j \in DOMAIN response.body :
          /\ i < j
          /\ response.body[i].score = response.body[j].score
          /\ RLt(response.body[i].s, response.body[j].s)
          /\ response.body[i].location < response.body[j].location


Tables == <<locations, criteria, location_criteria>>

(* C8: calculate_saw and calculate_wp never modify the dataset: the        *)
(* locations, criteria and location-criterion values after a call are      *)
(* those before it, whether it returns a ranking, the empty list, or fails.*)
C8_ScoringLeavesTablesUnchanged ==
    [][response'.op \in {"calculate_saw", "calculate_wp"} => UNCHANGED Tables]_vars

\* A scoring call that failed over stored locations, criteria and values.
C8_Witness ==
    /\ response.op \in {"calculate_saw", "calculate_wp"}
    /\ response.status = 500
    /\ Scored
    /\ location_criteria # <<>>

\* S(l) as the WP method defines it, the weight of a criterion being
\* negated when its type is one of negated.
RECURSIVE ProductTo(_, _, _)
ProductTo(l, n, negated) ==
    IF n = 0 THEN One
    ELSE LET c == criteria[n]
             v == ValueAt(l, c.id)
             w == IF c.type \in negated THEN RNeg(c.weight) ELSE c.weight
         IN  RMul(ProductTo(l, n - 1, negated),
                  IF v = 0 THEN One ELSE Pow(v, w))

NotBenefit == Types \ {"benefit"}

OnlyCost == {"cost"}

\* SAW applies the cost formula to every criterion that is not "benefit".
SawCostUnlessBenefit ==
    SawReturned =>
        \A i \in DOMAIN response.body :
            \A cid \in DOMAIN response.body[i].details :
                CriterionOf(cid).type # "benefit" =>
                    response.body[i].details[cid] =
                        CostFormula(ValueAt(response.body[i].location, cid),
                                    SetMin(StoredOf(cid)))

WpNegates(negated) ==
    WpReturned =>
        \A i \in DOMAIN response.body :
            response.body[i].s =
                ProductTo(response.body[i].location, Len(criteria), negated)

(* C9 as stated: a criterion whose type is anything other than "benefit"   *)
(* is scored as a cost criterion in both algorithms: SAW normalizes it     *)
(* with min_c / value(l,c) and WP raises value(l,c) to the negated weight. *)
C9_CostUnlessBenefit == SawCostUnlessBenefit /\ WpNegates(NotBenefit)

(* C9, amended: a criterion whose type is anything other than "benefit" is *)
(* scored as a cost criterion by SAW; WP negates the weight only of a      *)
(* criterion whose type is "cost", and raises the value of any other type, *)
(* "benefit" or not, to the weight itself.                                 *)
C9_SawCostUnlessBenefitWpBenefitUnlessCost ==
    SawCostUnlessBenefit /\ WpNegates(OnlyCost)

\* WP over a criterion of another type and a value that the sign of the
\* weight matters for.
C9_Witness ==
    /\ WpReturned
    /\ \E c \in Range(criteria) :
          /\ c.type \notin {"benefit", "cost"}
          /\ \E i \in DOMAIN response.body :
                /\ ValueAt(response.body[i].location, c.id) = 4
                /\ RLt(One, response.body[i].s)

CrudCalls404 ==
    {"update_location", "delete_location", "update_criteria", "delete_criteria"}

(* C10: an update_location, delete_location, update_criteria or            *)
(* delete_criteria call that answers 404 leaves the stored locations,      *)
(* criteria and values as they were: what it executed before finding the   *)
(* row missing is not committed.                                           *)
C10_NotFoundLeavesTablesUnchanged ==
    [][(response'.op \in CrudCalls404 /\ response'.status = 404)
          => UNCHANGED Tables]_vars

\* delete_criteria answered 404 while values are stored under every
\* criterion id and no criteria row exists: the values it deleted are back.
C10_Witness ==
    /\ response.op = "delete_criteria"
    /\ response.status = 404
    /\ criteria = <<>>
    /\ \A cid \in CriteriaIds : \E k \in DOMAIN location_criteria : k[2] = cid

=============================================================================
